---------------------------- MODULE Spec2Model ----------------------------
(***************************************************************************)
(* Model of renameTools/rename.py: the batch rename planner                *)
(* (collect_rename_pairs / _process_file), the classifier                  *)
(* (extract_file_info / generate_new_filename) and the preview /           *)
(* confirmation / execution glue of main.                                  *)
(*                                                                         *)
(* A filename is a sequence of tokens (strings); a path is a sequence of   *)
(* filenames, so that os.path.join is Append and os.path.basename is the   *)
(* last element.  A regular expression with one capture group is modelled  *)
(* by the set of tokens its group can capture; re.search returns the       *)
(* leftmost such token.  The literal "unknown" stands for the two-         *)
(* character default label of rename.py lines 35 and 41.                   *)
(***************************************************************************)
EXTENDS Naturals, Sequences, FiniteSets

VARIABLES
    tree,            \* directory path -> os.listdir order of its entries
    files,           \* paths of the regular files that currently exist
    deleted,         \* paths removed by another process while main waits
    config,          \* result of load_config
    recursive,       \* main's recursive flag
    dry_run,         \* args.dry_run
    stack,           \* activation records of collect_rename_pairs
    pc,              \* main's position
    rename_pairs,    \* main's rename_pairs (line 186)
    conflict_files,  \* main's conflict_files (line 186)
    claimed_names,   \* third component returned to main (line 186)
    confirmation,    \* last answer read by display_preview
    k,               \* position of rename_files' loop in rename_pairs
    calls,           \* os.rename calls issued so far, in order
    log,             \* logging records written by rename_files
    outcome          \* final message printed by main

vars == <<tree, files, deleted, config, recursive, dry_run, stack, pc,
          rename_pairs, conflict_files, claimed_names, confirmation,
          k, calls, log, outcome>>

--------------------------------------------------------------------------
(* Bounds of the model *)

MaxEntries == 4

MaxFaults == 1

--------------------------------------------------------------------------
(* The universe of names *)

Unknown == "unknown"

F1 == <<"2023", "_", "3", "_", "midterm", ".pdf">>

F3 == <<"2023", ".", "03", ".", "midterm", ".", Unknown, ".pdf">>

F4 == <<"notes", ".pdf">>

FileNames == {F1, F3, F4}

D1 == <<"sub1">>

D2 == <<"sub2">>

D3 == <<"sub3">>

RootDir == << <<"root">> >>

join(directory, name) == Append(directory, name)

basename(path) == path[Len(path)]

dirname(path) == SubSeq(path, 1, Len(path) - 1)

isdir(path) == path \in DOMAIN tree

listdir(directory) == tree[directory]

--------------------------------------------------------------------------
(* Configurations: a pattern is the set of tokens its group captures; an   *)
(* absent key is the empty set, an absent rule list the empty sequence.    *)

EmptyConfig ==
    [year_regex |-> {}, month_regex |-> {},
     exam_type_rules |-> <<>>, file_type_rules |-> <<>>]

FullConfig ==
    [year_regex |-> {"2023", "2024"}, month_regex |-> {"3", "03", "12"},
     exam_type_rules |-> << [pattern |-> {"midterm"}, type |-> "midterm"],
                            [pattern |-> {"final", "midterm"}, type |-> "final"] >>,
     file_type_rules |-> << [pattern |-> {"paper"}, type |-> "paper"] >>]

Configs == {EmptyConfig, FullConfig}

--------------------------------------------------------------------------
(* Classifier *)

search(pattern, filename) ==
    LET hits == {i \in 1..Len(filename) : filename[i] \in pattern}
    IN  IF hits = {} THEN <<>>
        ELSE << filename[CHOOSE i \in hits : \A j \in hits : i <= j] >>

first_rule(rules, filename) ==
    LET hits == {r \in 1..Len(rules) : search(rules[r].pattern, filename) # <<>>}
    IN  IF hits = {} THEN Unknown
        ELSE rules[CHOOSE r \in hits : \A q \in hits : r <= q].type

extract_file_info(filename, cfg) ==
    [year_match  |-> IF cfg.year_regex # {} THEN search(cfg.year_regex, filename) ELSE <<>>,
     month_match |-> IF cfg.month_regex # {} THEN search(cfg.month_regex, filename) ELSE <<>>,
     exam_type   |-> first_rule(cfg.exam_type_rules, filename),
     file_type   |-> first_rule(cfg.file_type_rules, filename)]

zfill2(tok) == IF tok \in {"1", "2", "3", "4", "5", "6", "7", "8", "9"}
               THEN CASE tok = "1" -> "01" [] tok = "2" -> "02" [] tok = "3" -> "03"
                      [] tok = "4" -> "04" [] tok = "5" -> "05" [] tok = "6" -> "06"
                      [] tok = "7" -> "07" [] tok = "8" -> "08" [] tok = "9" -> "09"
               ELSE tok

DotTokens == {".", ".pdf"}

splitext(filename) ==
    LET dots == {i \in 1..Len(filename) : filename[i] \in DotTokens}
        last == CHOOSE i \in dots : \A j \in dots : j <= i
    IN  IF dots = {} THEN <<>>
        ELSE IF \A j \in 1..(last - 1) : filename[j] = "." THEN <<>>
        ELSE SubSeq(filename, last, Len(filename))

\* mutant: a file without a year is renamed to the formatted pattern all the same
generate_new_filename_always_formats(filename, year_match, month_match, exam_type, file_type) ==
    LET file_extension == splitext(filename)
        year == IF year_match # <<>> THEN year_match[1] ELSE Unknown
    IN  IF month_match # <<>>
        THEN <<year, ".", zfill2(month_match[1]), ".", exam_type, ".", file_type>>
                \o file_extension
        ELSE <<year, ".", exam_type, ".", file_type>> \o file_extension

generate_new_filename(filename, year_match, month_match, exam_type, file_type) ==
    LET file_extension == splitext(filename)
    IN  IF year_match # <<>>
        THEN IF month_match # <<>>
             THEN <<year_match[1], ".", zfill2(month_match[1]), ".", exam_type, ".", file_type>>
                     \o file_extension
             ELSE <<year_match[1], ".", exam_type, ".", file_type>> \o file_extension
        ELSE filename

candidate(filename, cfg) ==
    LET info == extract_file_info(filename, cfg)
    IN  generate_new_filename(filename, info.year_match, info.month_match,
                              info.exam_type, info.file_type)

\* mutant: the membership test of line 74 is dropped
process_file_never_conflicts(directory, filename, cfg, existing_new_filenames) ==
    IF isdir(join(directory, filename))
    THEN [rename_info |-> <<>>, conflict_info |-> <<>>]
    ELSE [rename_info |-> <<join(directory, filename),
                            join(directory, candidate(filename, cfg))>>,
          conflict_info |-> <<>>]

\* mutant: a rename of a file to its own name is filtered out of the plan
process_file_drops_noop(directory, filename, cfg, existing_new_filenames) ==
    IF isdir(join(directory, filename)) \/ candidate(filename, cfg) = filename
    THEN [rename_info |-> <<>>, conflict_info |-> <<>>]
    ELSE LET new_filename == candidate(filename, cfg)
         IN  IF new_filename \in existing_new_filenames
             THEN [rename_info |-> <<>>, conflict_info |-> <<filename, new_filename>>]
             ELSE [rename_info |-> <<join(directory, filename), join(directory, new_filename)>>,
                   conflict_info |-> <<>>]

process_file(directory, filename, cfg, existing_new_filenames) ==
    IF isdir(join(directory, filename))
    THEN [rename_info |-> <<>>, conflict_info |-> <<>>]
    ELSE LET new_filename == candidate(filename, cfg)
         IN  IF new_filename \in existing_new_filenames
             THEN [rename_info |-> <<>>, conflict_info |-> <<filename, new_filename>>]
             ELSE [rename_info |-> <<join(directory, filename), join(directory, new_filename)>>,
                   conflict_info |-> <<>>]

--------------------------------------------------------------------------
(* Initial states: a directory tree with its enumeration orders, the       *)
(* configuration and the command-line flags.                               *)

RECURSIVE Perms(_)
Perms(S) ==
    IF S = {} THEN {<<>>}
    ELSE UNION {{<<x>> \o p : p \in Perms(S \ {x})} : x \in S}

Listings(fs, ds, n) ==
    UNION {Perms(e) : e \in {g \in SUBSET (fs \cup ds) : Cardinality(g) <= n}}

Has(listing, name) == \E i \in 1..Len(listing) : listing[i] = name

Sub1 == join(RootDir, D1)

Sub2 == join(RootDir, D2)

Sub3 == join(Sub1, D3)

MakeTree(lr, l1, l2, l3) ==
    LET present == {RootDir}
                   \cup (IF Has(lr, D1) THEN {Sub1} ELSE {})
                   \cup (IF Has(lr, D2) THEN {Sub2} ELSE {})
                   \cup (IF Has(lr, D1) /\ Has(l1, D3) THEN {Sub3} ELSE {})
    IN  [d \in present |-> IF d = RootDir THEN lr
                           ELSE IF d = Sub1 THEN l1
                           ELSE IF d = Sub2 THEN l2
                           ELSE l3]

AllFiles(t) ==
    UNION {{join(d, t[d][i]) : i \in {j \in 1..Len(t[d]) : join(d, t[d][j]) \notin DOMAIN t}}
           : d \in DOMAIN t}

NewFrame(directory) ==
    [directory |-> directory, i |-> 1, rename_pairs |-> <<>>,
     conflict_files |-> <<>>, existing_new_filenames |-> {}]

Init ==
    \E lr \in Listings(FileNames, {D1, D2}, MaxEntries) :
    \E l1 \in (IF Has(lr, D1) THEN Listings(FileNames, {D3}, MaxEntries - Len(lr)) ELSE {<<>>}) :
    \E l2 \in (IF Has(lr, D2) THEN Listings(FileNames, {}, MaxEntries - Len(lr) - Len(l1))
               ELSE {<<>>}) :
    \E l3 \in (IF Has(l1, D3)
               THEN Listings(FileNames, {}, MaxEntries - Len(lr) - Len(l1) - Len(l2))
               ELSE {<<>>}) :
        /\ tree = MakeTree(lr, l1, l2, l3)
        /\ files = AllFiles(MakeTree(lr, l1, l2, l3))
        /\ deleted = {}
        /\ config \in Configs
        /\ recursive \in BOOLEAN
        /\ dry_run \in BOOLEAN
        /\ stack = <<NewFrame(RootDir)>>
        /\ pc = "collect"
        /\ rename_pairs = <<>>
        /\ conflict_files = <<>>
        /\ claimed_names = {}
        /\ confirmation = "none"
        /\ k = 1
        /\ calls = <<>>
        /\ log = <<>>
        /\ outcome = "none"

--------------------------------------------------------------------------
(* collect_rename_pairs: one step per iteration of the loop of line 85,    *)
(* one per recursive call and one per return.                              *)

Top == stack[Len(stack)]

Item == listdir(Top.directory)[Top.i]

\* mutant: the recursive flag is ignored
should_descend_always(item_path, rec) == isdir(item_path)

should_descend(item_path, rec) == isdir(item_path) /\ rec

\* mutant: the accepted name is not recorded
add_claim_forgets(existing_new_filenames, rename_info) == existing_new_filenames

add_claim(existing_new_filenames, rename_info) ==
    existing_new_filenames \cup {basename(rename_info[2])}

\* mutant: the names claimed by the subdirectory are not merged
merge_claims_dropped(existing_new_filenames, sub_existing_new_filenames) ==
    existing_new_filenames

merge_claims(existing_new_filenames, sub_existing_new_filenames) ==
    existing_new_filenames \cup sub_existing_new_filenames

SetTop(frame) == [stack EXCEPT ![Len(stack)] = frame]

PlanUnchanged ==
    UNCHANGED <<tree, files, deleted, config, recursive, dry_run, rename_pairs,
                conflict_files, claimed_names, confirmation, k, calls,
                log, outcome>>

\* lines 85-89: the entry is a directory and the run is recursive
Descend ==
    /\ pc = "collect"
    /\ Top.i <= Len(listdir(Top.directory))
    /\ should_descend(join(Top.directory, Item), recursive)
    /\ stack' = Append(stack, NewFrame(join(Top.directory, Item)))
    /\ pc' = pc
    /\ PlanUnchanged

\* lines 85-93: the entry is a directory and the run is not recursive
SkipDirectory ==
    /\ pc = "collect"
    /\ Top.i <= Len(listdir(Top.directory))
    /\ ~should_descend(join(Top.directory, Item), recursive)
    /\ isdir(join(Top.directory, Item))
    /\ stack' = SetTop([Top EXCEPT !.i = @ + 1])
    /\ pc' = pc
    /\ PlanUnchanged

\* lines 93-99: the entry is a regular file
ProcessFile ==
    /\ pc = "collect"
    /\ Top.i <= Len(listdir(Top.directory))
    /\ ~should_descend(join(Top.directory, Item), recursive)
    /\ ~isdir(join(Top.directory, Item))
    /\ LET r == process_file(Top.directory, Item, config, Top.existing_new_filenames)
       IN  stack' = SetTop(
             IF r.rename_info # <<>>
             THEN [Top EXCEPT !.i = @ + 1,
                              !.rename_pairs = Append(@, r.rename_info),
                              !.existing_new_filenames = add_claim(@, r.rename_info)]
             ELSE IF r.conflict_info # <<>>
             THEN [Top EXCEPT !.i = @ + 1,
                              !.conflict_files = Append(@, r.conflict_info)]
             ELSE [Top EXCEPT !.i = @ + 1])
    /\ pc' = pc
    /\ PlanUnchanged

\* lines 101, 89-92: a recursive call returns and its caller merges the result
ReturnToParent ==
    /\ pc = "collect"
    /\ Len(stack) > 1
    /\ Top.i > Len(listdir(Top.directory))
    /\ LET parent == stack[Len(stack) - 1]
       IN  stack' = Append(SubSeq(stack, 1, Len(stack) - 2),
                 [parent EXCEPT
                    !.i = @ + 1,
                    !.rename_pairs = @ \o Top.rename_pairs,
                    !.conflict_files = @ \o Top.conflict_files,
                    !.existing_new_filenames = merge_claims(@, Top.existing_new_filenames)])
    /\ pc' = pc
    /\ PlanUnchanged

\* lines 101, 186: the top-level call returns to main
ReturnToMain ==
    /\ pc = "collect"
    /\ Len(stack) = 1
    /\ Top.i > Len(listdir(Top.directory))
    /\ rename_pairs' = Top.rename_pairs
    /\ conflict_files' = Top.conflict_files
    /\ claimed_names' = Top.existing_new_filenames
    /\ stack' = <<>>
    /\ pc' = "main"
    /\ UNCHANGED <<tree, files, deleted, config, recursive, dry_run, confirmation,
                   k, calls, log, outcome>>

--------------------------------------------------------------------------
(* main, display_preview and rename_files *)

\* mutant: rename_files does not look at dry_run
rename_files_ignores_dry_run(dry) == FALSE

rename_files_returns_early(dry) == dry

\* mutant: the first failed rename ends the loop
next_index_abort(idx, status, n) == IF status = "ok" THEN idx + 1 ELSE n + 1

next_index(idx, status, n) == idx + 1

\* rename_files entered after display_preview returned True (lines 189-190, 130-132)
EnterRenameFiles ==
    IF rename_files_returns_early(dry_run)
    THEN /\ log' = Append(log, [level |-> "info", msg |-> "dry-run", pair |-> <<>>])
         /\ pc' = "done"
         /\ outcome' = "completed"
    ELSE /\ log' = log
         /\ pc' = "rename"
         /\ outcome' = outcome

\* lines 188, 194-195: the plan is empty
NothingToRename ==
    /\ pc = "main"
    /\ rename_pairs = <<>> /\ conflict_files = <<>>
    /\ pc' = "done"
    /\ outcome' = "nothing"
    /\ UNCHANGED <<tree, files, deleted, config, recursive, dry_run, stack, rename_pairs,
                   conflict_files, claimed_names, confirmation, k, calls, log>>

\* lines 188-190, 103-116, 126: preview in dry-run mode, no prompt
PreviewDryRun ==
    /\ pc = "main"
    /\ rename_pairs # <<>> \/ conflict_files # <<>>
    /\ dry_run
    /\ EnterRenameFiles
    /\ UNCHANGED <<tree, files, deleted, config, recursive, dry_run, stack, rename_pairs,
                   conflict_files, claimed_names, confirmation, k, calls>>

\* lines 188-189, 103-119: preview printed, the prompt is waiting for input
PreviewPrompt ==
    /\ pc = "main"
    /\ rename_pairs # <<>> \/ conflict_files # <<>>
    /\ ~dry_run
    /\ pc' = "confirm"
    /\ UNCHANGED <<tree, files, deleted, config, recursive, dry_run, stack, rename_pairs,
                   conflict_files, claimed_names, confirmation, k, calls, log,
                   outcome>>

\* lines 119, 124-125: an answer other than y or n, the prompt is repeated
AnswerInvalid ==
    /\ pc = "confirm"
    /\ confirmation' = "other"
    /\ UNCHANGED <<tree, files, deleted, config, recursive, dry_run, stack, pc, rename_pairs,
                   conflict_files, claimed_names, k, calls, log, outcome>>

\* lines 119-121, 189-190: the operator answers y
AnswerYes ==
    /\ pc = "confirm"
    /\ confirmation' = "y"
    /\ EnterRenameFiles
    /\ UNCHANGED <<tree, files, deleted, config, recursive, dry_run, stack, rename_pairs,
                   conflict_files, claimed_names, k, calls>>

\* lines 119, 122-123, 192-193: the operator answers n
AnswerNo ==
    /\ pc = "confirm"
    /\ confirmation' = "n"
    /\ pc' = "done"
    /\ outcome' = "cancelled"
    /\ UNCHANGED <<tree, files, deleted, config, recursive, dry_run, stack, rename_pairs,
                   conflict_files, claimed_names, k, calls, log>>

\* another process removes a file while the prompt of line 119 is waiting
ExternalDelete ==
    /\ pc = "confirm"
    /\ Cardinality(deleted) < MaxFaults
    /\ \E p \in files :
          /\ files' = files \ {p}
          /\ deleted' = deleted \cup {p}
    /\ UNCHANGED <<tree, config, recursive, dry_run, stack, pc, rename_pairs,
                   conflict_files, claimed_names, confirmation, k, calls, log,
                   outcome>>

\* number of faults the environment has injected so far: files removed by
\* another process, and os.rename calls refused although the source exists
Faults(existing_log) ==
    Cardinality(deleted)
    + Cardinality({j \in 1..Len(existing_log) :
                     existing_log[j].msg \in {"permission", "os_error"}})

\* os.rename (line 136): what the operating system can answer.  A missing
\* source raises FileNotFoundError; a target that exists is replaced on POSIX
\* and refused with FileExistsError on Windows; a call on an existing source
\* can be refused for lack of permission or for another OS reason.
rename_statuses(old_path, new_path, existing) ==
    IF old_path \notin existing THEN {"not_found"}
    ELSE {"ok"}
         \cup (IF new_path \in existing /\ new_path # old_path THEN {"file_exists"} ELSE {})
         \cup (IF Faults(log) < MaxFaults THEN {"permission", "os_error"} ELSE {})

\* lines 134-143: one iteration of the loop of rename_files
RenameStep ==
    /\ pc = "rename"
    /\ k <= Len(rename_pairs)
    /\ LET old_path == rename_pairs[k][1]
           new_path == rename_pairs[k][2]
       IN  \E status \in rename_statuses(old_path, new_path, files) :
             /\ calls' = Append(calls, <<old_path, new_path>>)
             /\ files' = IF status = "ok"
                         THEN (files \ {old_path}) \cup {new_path}
                         ELSE files
             /\ log' = Append(log, [level |-> IF status = "ok" THEN "info" ELSE "error",
                                     msg |-> status, pair |-> <<old_path, new_path>>])
             /\ k' = next_index(k, status, Len(rename_pairs))
    /\ UNCHANGED <<tree, deleted, config, recursive, dry_run, stack, pc, rename_pairs,
                   conflict_files, claimed_names, confirmation, outcome>>

\* lines 134, 191: the loop is over
RenameFinished ==
    /\ pc = "rename"
    /\ k > Len(rename_pairs)
    /\ pc' = "done"
    /\ outcome' = "completed"
    /\ UNCHANGED <<tree, files, deleted, config, recursive, dry_run, stack, rename_pairs,
                   conflict_files, claimed_names, confirmation, k, calls, log>>

Next ==
    \/ Descend
    \/ SkipDirectory
    \/ ProcessFile
    \/ ReturnToParent
    \/ ReturnToMain
    \/ NothingToRename
    \/ PreviewDryRun
    \/ PreviewPrompt
    \/ AnswerInvalid
    \/ AnswerYes
    \/ AnswerNo
    \/ ExternalDelete
    \/ RenameStep
    \/ RenameFinished

Spec == Init /\ [][Next]_vars

--------------------------------------------------------------------------
(* Vocabulary of the properties *)

\* the top-level call has just returned its result to main (line 186); the
\* two lists are not assigned again afterwards
Planned == pc = "main"

IsPrefix(directory, path) ==
    Len(directory) <= Len(path) /\ SubSeq(path, 1, Len(directory)) = directory

IsFileAt(directory, m) == ~isdir(join(directory, listdir(directory)[m]))

FilesOf(directory) ==
    {join(directory, listdir(directory)[m]) :
        m \in {j \in 1..Len(listdir(directory)) : IsFileAt(directory, j)}}

VisitedDirs == IF recursive THEN DOMAIN tree ELSE {RootDir}

VisitedFiles == UNION {FilesOf(d) : d \in VisitedDirs}

EntryNames == FileNames \cup {D1, D2, D3}

NoYear(filename) == extract_file_info(filename, config).year_match = <<>>

Sources == {rename_pairs[q][1] : q \in 1..Len(rename_pairs)}

\* the step taken is one iteration of the loop of line 85 over a regular file
FileStep ==
    /\ pc = "collect" /\ pc' = "collect"
    /\ Len(stack') = Len(stack)
    /\ stack' # stack
    /\ Top.i <= Len(listdir(Top.directory))
    /\ IsFileAt(Top.directory, Top.i)

NewTop == stack'[Len(stack')]

RenameRecorded(old_name, new_name) ==
    /\ NewTop.rename_pairs =
         Append(Top.rename_pairs,
                <<join(Top.directory, old_name), join(Top.directory, new_name)>>)
    /\ NewTop.conflict_files = Top.conflict_files

ConflictRecorded(old_name, new_name) ==
    /\ NewTop.conflict_files = Append(Top.conflict_files, <<old_name, new_name>>)
    /\ NewTop.rename_pairs = Top.rename_pairs

\* an earlier file of the directory being walked has the candidate name c
EarlierFileHas(c) ==
    \E m \in 1..(Top.i - 1) :
        /\ IsFileAt(Top.directory, m)
        /\ candidate(listdir(Top.directory)[m], config) = c

\* the subtree of an earlier subdirectory of the directory being walked
\* holds a planned rename to the name c
EarlierSubtreeHas(c) ==
    \E m \in 1..(Top.i - 1) :
        /\ ~IsFileAt(Top.directory, m)
        /\ \E q \in 1..Len(Top.rename_pairs) :
              /\ IsPrefix(join(Top.directory, listdir(Top.directory)[m]),
                          Top.rename_pairs[q][1])
              /\ basename(Top.rename_pairs[q][2]) = c

\* several files of the directory being walked have the candidate name c
SeveralHave(c) ==
    Cardinality({m \in 1..Len(listdir(Top.directory)) :
                    /\ IsFileAt(Top.directory, m)
                    /\ candidate(listdir(Top.directory)[m], config) = c}) >= 2

--------------------------------------------------------------------------
\* C1: the result of one top-level collect_rename_pairs call holds no two
\* RenamePairs with the same target full path, whatever the tree, the
\* enumeration order and the recursive flag.
C1_NoDuplicateTargetPaths ==
    Planned =>
        \A q, r \in 1..Len(rename_pairs) :
            q # r => rename_pairs[q][2] # rename_pairs[r][2]

\* a plan in which a collision was detected and two renames were planned
C1_Witness ==
    /\ Planned
    /\ Len(rename_pairs) >= 2
    /\ \E c \in 1..Len(conflict_files) : \E q \in 1..Len(rename_pairs) :
          conflict_files[c][2] = basename(rename_pairs[q][2])

\* C2 (as claimed): in a recursive run no two RenamePairs of the result have
\* the same target filename, even in different directories of the tree.
C2_UniqueTargetNames ==
    (Planned /\ recursive) =>
        \A q, r \in 1..Len(rename_pairs) :
            q # r => basename(rename_pairs[q][2]) # basename(rename_pairs[r][2])

\* C3: every regular file visited is exactly once the source of a RenamePair
\* or exactly once the original of a ConflictPair, never both, never
\* neither; a directory entry is in neither list.
C3_ExactlyOneList ==
    Planned =>
        /\ Sources \subseteq VisitedFiles
        /\ \A p \in VisitedFiles :
              Cardinality({q \in 1..Len(rename_pairs) : rename_pairs[q][1] = p}) <= 1
        /\ \A n \in EntryNames :
              Cardinality({c \in 1..Len(conflict_files) : conflict_files[c][1] = n})
                = Cardinality({p \in VisitedFiles : basename(p) = n /\ p \notin Sources})
        /\ Len(rename_pairs) + Len(conflict_files) = Cardinality(VisitedFiles)

\* a plan with a rename, a conflict and a directory entry that was walked past
C3_Witness ==
    /\ Planned
    /\ rename_pairs # <<>>
    /\ conflict_files # <<>>
    /\ Cardinality(DOMAIN tree) >= 2

\* C4 (as claimed): of several files of one directory with the same candidate
\* name the first enumerated is planned as a RenamePair, every later one is
\* a ConflictPair with that candidate and is absent from the rename list.
C4_FirstAlwaysRenamed ==
    Planned =>
        \A d \in VisitedDirs : \A m \in 1..Len(listdir(d)) :
            IsFileAt(d, m) =>
              LET name == listdir(d)[m]
                  c == candidate(name, config)
                  same == {j \in 1..Len(listdir(d)) :
                             IsFileAt(d, j) /\ candidate(listdir(d)[j], config) = c}
              IN  Cardinality(same) >= 2 =>
                    IF \A j \in same : m <= j
                    THEN \E q \in 1..Len(rename_pairs) :
                            rename_pairs[q] = <<join(d, name), join(d, c)>>
                    ELSE /\ \E q \in 1..Len(conflict_files) :
                               conflict_files[q] = <<name, c>>
                         /\ join(d, name) \notin Sources

\* C4 (amended): every later one is a ConflictPair with that candidate and is
\* absent from the rename list; the first is a RenamePair unless the subtree
\* of a subdirectory enumerated earlier in that directory has claimed the
\* name, and then it is a ConflictPair too; recording a ConflictPair leaves
\* the claimed-name set unchanged.
C4_FirstRenamedUnlessClaimedBySubtree ==
    [][FileStep =>
         LET name == Item
             c == candidate(Item, config)
         IN  /\ SeveralHave(c) =>
                   /\ EarlierFileHas(c) => ConflictRecorded(name, c)
                   /\ (~EarlierFileHas(c) /\ EarlierSubtreeHas(c)) => ConflictRecorded(name, c)
                   /\ (~EarlierFileHas(c) /\ ~EarlierSubtreeHas(c)) => RenameRecorded(name, c)
             /\ NewTop.conflict_files # Top.conflict_files =>
                   NewTop.existing_new_filenames = Top.existing_new_filenames
    ]_vars

\* two files of one directory with the same candidate: the first is planned,
\* the second reported as a conflict with that candidate
C4_Witness ==
    /\ Planned
    /\ \E q \in 1..Len(rename_pairs) : \E c \in 1..Len(conflict_files) :
          /\ conflict_files[c][2] = basename(rename_pairs[q][2])
          /\ join(dirname(rename_pairs[q][1]), conflict_files[c][1]) \in VisitedFiles
          /\ conflict_files[c][1] # basename(rename_pairs[q][1])

\* C5: with recursive = false every RenamePair source and every ConflictPair
\* is a file directly in the root directory, no call is made for a
\* subdirectory and no file of a subdirectory contributes a claimed name.
C5_NonRecursiveStaysInRoot ==
    ~recursive =>
        /\ Len(stack) <= 1
        /\ \A f \in 1..Len(stack) : stack[f].directory = RootDir
        /\ Planned =>
              /\ Sources \subseteq FilesOf(RootDir)
              /\ \A c \in 1..Len(conflict_files) :
                    join(RootDir, conflict_files[c][1]) \in FilesOf(RootDir)
              /\ claimed_names \subseteq
                    {candidate(basename(p), config) : p \in FilesOf(RootDir)}
              /\ Len(rename_pairs) + Len(conflict_files) = Cardinality(FilesOf(RootDir))

\* a non-recursive plan over a root that has a file and a subdirectory with a file
C5_Witness ==
    /\ ~recursive
    /\ Planned
    /\ rename_pairs # <<>>
    /\ \E d \in DOMAIN tree : d # RootDir /\ FilesOf(d) # {}

\* C6: os.rename is called only when dry-run is off and the operator has
\* answered y: never in dry-run mode, never before the answer, never after n.
C6_RenameOnlyWhenConfirmed ==
    /\ calls # <<>> => (~dry_run /\ confirmation = "y")
    /\ dry_run => files = AllFiles(tree)
    /\ (pc = "done" /\ confirmation = "n") => (calls = <<>> /\ outcome = "cancelled")

\* a finished dry run over a plan that would have changed a name
C6_Witness ==
    /\ dry_run
    /\ pc = "done"
    /\ \E q \in 1..Len(rename_pairs) : rename_pairs[q][1] # rename_pairs[q][2]

RECURSIVE Replay(_, _, _)
Replay(existing, records, n) ==
    IF n = 0 THEN existing
    ELSE LET before == Replay(existing, records, n - 1)
         IN  IF records[n].msg = "ok"
             THEN (before \ {records[n].pair[1]}) \cup {records[n].pair[2]}
             ELSE before

\* C7: once confirmed, every RenamePair is attempted exactly once in plan
\* order whatever failed before; a failure is logged and does not end the
\* batch, and the renames that succeeded stay in place.
C7_EveryPairAttemptedInOrder ==
    (pc \in {"rename", "done"} /\ confirmation = "y" /\ ~dry_run) =>
        /\ k <= Len(rename_pairs) + 1
        /\ calls = SubSeq(rename_pairs, 1, k - 1)
        /\ Len(log) = k - 1
        /\ \A j \in 1..Len(log) :
              /\ log[j].pair = rename_pairs[j]
              /\ log[j].level = "error" <=> log[j].msg # "ok"
        /\ pc = "done" => k = Len(rename_pairs) + 1
        /\ files = Replay(AllFiles(tree) \ deleted, log, Len(log))

\* a finished batch in which a failed attempt was followed by a successful one
C7_Witness ==
    /\ pc = "done" /\ confirmation = "y" /\ ~dry_run
    /\ \E i, j \in 1..Len(log) :
          i < j /\ log[i].level = "error" /\ log[j].msg = "ok"

\* C8 (as claimed): every file from which no year is extracted has its own
\* name as candidate and is the source of a RenamePair whose target path is
\* its source path.
C8_NoYearAlwaysPlanned ==
    Planned =>
        \A p \in VisitedFiles :
            NoYear(basename(p)) =>
                /\ candidate(basename(p), config) = basename(p)
                /\ \E q \in 1..Len(rename_pairs) : rename_pairs[q] = <<p, p>>

\* C8 (amended): such a file has its own name as candidate and is not
\* filtered out: it is the source of a RenamePair whose target path is its
\* source path, unless its name was already claimed when it was processed,
\* and then it is reported as the ConflictPair (name, name).
C8_NoYearPlannedUnlessClaimed ==
    Planned =>
        \A p \in VisitedFiles :
            NoYear(basename(p)) =>
                /\ candidate(basename(p), config) = basename(p)
                /\ \/ \E q \in 1..Len(rename_pairs) : rename_pairs[q] = <<p, p>>
                   \/ /\ p \notin Sources
                      /\ \E c \in 1..Len(conflict_files) :
                            conflict_files[c] = <<basename(p), basename(p)>>
                      /\ \E q \in 1..Len(rename_pairs) :
                            basename(rename_pairs[q][2]) = basename(p)

\* patterns are configured, a file matches no year and is planned onto itself
C8_Witness ==
    /\ Planned
    /\ config = FullConfig
    /\ \E q \in 1..Len(rename_pairs) :
          /\ rename_pairs[q][1] = rename_pairs[q][2]
          /\ NoYear(basename(rename_pairs[q][1]))

C10_NoFileDestroyed ==
    pc = "done" =>
        Cardinality(files) + Cardinality(deleted) = Cardinality(AllFiles(tree))

=============================================================================
